---- MODULE Spec2Model ----
(***************************************************************************)
(* ts3status-rs: the status cache (fetch_status) and the tree builder      *)
(* (channel_tree, ChannelNode::add_to_parent) of src/query.rs, with the    *)
(* cache construction of src/main.rs (build_state).                        *)
(*                                                                         *)
(* Time is counted in ticks of 1/TicksPerSec second, so that the whole-    *)
(* second truncation of Duration::as_secs is part of the model.            *)
(***************************************************************************)
EXTENDS Integers, Sequences, FiniteSets, TLC

(* ------------------------------ bounds -------------------------------- *)

\* fetch_status calls started in one behaviour
MaxCalls == 2
\* clock advances in one behaviour
MaxTicks == 3
\* clock resolution: ticks per second
TicksPerSec == 2

\* the concurrent request handlers that call fetch_status
Callers == {1, 2}

\* channel records in one answer of the collaborator, and the largest id
MaxChannels == 3
\* client records in one answer of the collaborator
MaxClients == 3

(* ------------------------- program constants -------------------------- *)

\* query.rs:14  pub const CACHE_LIFETIME: u64 = 20;
CACHE_LIFETIME == 20

\* query.rs:88  c.client_type == 0 selects the regular voice clients
VOICE_CLIENT == 0

\* query.rs:76  the synthetic root node has id 0
ROOT_ID == 0

(* ------------------------------ data ---------------------------------- *)

\* Option<String> as a sequence of length at most one
None == <<>>
Some(s) == <<s>>

\* Option::unwrap_or_default for Option<String> (query.rs:97-105)
unwrap_or_default(o) == IF o = None THEN "" ELSE o[1]

\* ServerInfo::default(): derived Default (query.rs:45-51)
ServerInfoDefault == [name |-> "", version |-> "", platform |-> "", channels |-> <<>>]

\* impl From<&OnlineClientFull> for Client (query.rs:25-35)
ClientFrom(c) ==
    [nickname |-> c.client_nickname,
     country |-> c.client_country,
     input_muted |-> c.client_input_muted,
     output_muted |-> c.client_output_muted,
     away |-> c.client_away]

\* variant: the filter on the channel id only
RECURSIVE FilterMapAnyType(_, _)
FilterMapAnyType(clients, cid) ==
    IF clients = <<>> THEN <<>>
    ELSE LET c == Head(clients)
             rest == FilterMapAnyType(Tail(clients), cid)
         IN IF c.cid = cid THEN <<ClientFrom(c)>> \o rest ELSE rest

\* Iterator::filter(..).map(..).collect() over a Vec, order kept
RECURSIVE FilterMap(_, _)
FilterMap(clients, cid) ==
    IF clients = <<>> THEN <<>>
    ELSE LET c == Head(clients)
             rest == FilterMap(Tail(clients), cid)
         IN IF c.client_type = VOICE_CLIENT /\ c.cid = cid
            THEN <<ClientFrom(c)>> \o rest
            ELSE rest

\* variant: the channel pushed in front of the children
RECURSIVE add_to_parent_front(_, _, _)
add_to_parent_front(self, parent_id, channel) ==
    IF self.id = parent_id
    THEN [self EXCEPT !.children = <<channel>> \o @]
    ELSE [self EXCEPT !.children =
            [i \in DOMAIN self.children |->
                add_to_parent_front(self.children[i], parent_id, channel)]]

\* variant: a search that stops at the root, so that the channel is kept at
\* the top level whatever its parent id
RECURSIVE add_to_parent_or_root(_, _, _)
add_to_parent_or_root(self, parent_id, channel) ==
    IF self.id = parent_id \/ self.id = ROOT_ID
    THEN [self EXCEPT !.children = Append(@, channel)]
    ELSE [self EXCEPT !.children =
            [i \in DOMAIN self.children |->
                add_to_parent_or_root(self.children[i], parent_id, channel)]]

\* ChannelNode::add_to_parent (query.rs:59-67): the node with the channel
\* pushed under every node of the subtree whose id is parent_id; the search
\* does not descend below a node that matches
RECURSIVE add_to_parent(_, _, _)
add_to_parent(self, parent_id, channel) ==
    IF self.id = parent_id
    THEN [self EXCEPT !.children = Append(@, channel)]
    ELSE [self EXCEPT !.children =
            [i \in DOMAIN self.children |->
                add_to_parent(self.children[i], parent_id, channel)]]

\* the node built for one channel record (query.rs:83-92)
NodeOf(channel, clients) ==
    [id |-> channel.cid,
     name |-> channel.channel_name,
     clients |-> FilterMap(clients, channel.cid),
     children |-> <<>>]

\* variant: the loop run over the answer from its last record to its first
RECURSIVE InsertAllReversed(_, _, _)
InsertAllReversed(root, channels, clients) ==
    IF channels = <<>> THEN root
    ELSE LET last == channels[Len(channels)]
         IN InsertAllReversed(add_to_parent(root, last.pid, NodeOf(last, clients)),
                              SubSeq(channels, 1, Len(channels) - 1), clients)

\* the loop of channel_tree (query.rs:82-94)
RECURSIVE InsertAll(_, _, _)
InsertAll(root, channels, clients) ==
    IF channels = <<>> THEN root
    ELSE InsertAll(add_to_parent(root, Head(channels).pid,
                                 NodeOf(Head(channels), clients)),
                   Tail(channels), clients)

\* the root node channel_tree starts from (query.rs:75-80)
RootNode == [id |-> ROOT_ID, name |-> "Root", clients |-> <<>>, children |-> <<>>]

\* the keys channel_tree indexes the metadata map with (query.rs:97-103)
MetaKeys == {"virtualserver_name", "virtualserver_version", "virtualserver_platform"}

\* HashMap indexing panics on a missing key (query.rs:97, 100, 103)
IndexPanics(server_info) == ~(MetaKeys \subseteq DOMAIN server_info)

\* channel_tree (query.rs:70-108), defined when no index panics
channel_tree(server_info, channels, clients) ==
    [name |-> unwrap_or_default(server_info["virtualserver_name"]),
     version |-> unwrap_or_default(server_info["virtualserver_version"]),
     platform |-> unwrap_or_default(server_info["virtualserver_platform"]),
     channels |-> InsertAll(RootNode, channels, clients).children]

(* ------------------- what the collaborator may answer ------------------ *)

Chan(cid, pid, nm) == [cid |-> cid, pid |-> pid, channel_name |-> nm]
Cli(cid, type, nick) ==
    [cid |-> cid, client_type |-> type, client_nickname |-> nick,
     client_country |-> "DE", client_input_muted |-> FALSE,
     client_output_muted |-> FALSE, client_away |-> FALSE]

MetaFull ==
    [k \in MetaKeys |->
        IF k = "virtualserver_name" THEN Some("Alpha")
        ELSE IF k = "virtualserver_version" THEN Some("3.13")
        ELSE Some("Linux")]
MetaNoVersion ==
    [k \in MetaKeys |->
        IF k = "virtualserver_name" THEN Some("Beta")
        ELSE IF k = "virtualserver_version" THEN None
        ELSE Some("Windows")]
MetaMissingKey ==
    [k \in MetaKeys \ {"virtualserver_platform"} |->
        IF k = "virtualserver_name" THEN Some("Gamma") ELSE Some("3.13")]

\* parents first, and a child that precedes its parent
ChansOrdered == <<Chan(1, 0, "A"), Chan(2, 1, "B"), Chan(3, 0, "C")>>
ChansUnordered == <<Chan(2, 1, "B"), Chan(1, 0, "A")>>

ClientsMixed == <<Cli(2, 0, "Bob"), Cli(1, 1, "serveradmin")>>

MetaResponses == {MetaFull, MetaNoVersion, MetaMissingKey}
ChannelResponses == {ChansOrdered, ChansUnordered}
ClientResponses == {ClientsMixed}

(* ------------------------------ state --------------------------------- *)

VARIABLES
    now,         \* the monotonic clock (Instant::now()), in ticks
    ticks,       \* clock advances so far
    calls,       \* fetch_status calls started so far
    cache,       \* StatusCache: [last_update, server_info]
    lock,        \* the RwLock around it: [readers, writer, poisoned]
    pc,          \* per caller: the line of fetch_status it is at, or "idle"
    loc,         \* per caller: the locals of fetch_status
    res,         \* per caller: what its last finished call gave
    obs,         \* per caller: what the running call has done so far
    tag,         \* per field of the cache: the call that wrote it (0: build_state),
                 \* and the fetch the cached payload was built from
    lastWriter,  \* the call that acquired the write lock last (0: none yet)
    failedCall,  \* the call that failed on the timestamp the cache still holds (0: none)
    installed    \* every payload the cache has held

vars == <<now, ticks, calls, cache, lock, pc, loc, res, obs, tag,
          lastWriter, failedCall, installed>>

\* the collaborator sequence of fetch_status (query.rs:122-137)
Ops == <<"connect", "login", "select_server", "serverinfo", "channels",
         "clients", "logout">>
OpSet == {Ops[i] : i \in DOMAIN Ops}
OpIndex(op) == CHOOSE i \in DOMAIN Ops : Ops[i] = op

\* the lines of fetch_status at which a caller holds a guard of the lock
ReadHeld == {"l116r", "l150r"}
WriteHeld == {"l141", "l142"}

LocInit ==
    [last_update |-> 0, server_info |-> <<>>, channels |-> <<>>,
     clients |-> <<>>, info |-> ServerInfoDefault]
ObsInit ==
    [id |-> 0, invoked |-> <<>>, wrote |-> FALSE, fetched |-> 0,
     raced |-> FALSE, saw_last_update |-> None, saw_server_info |-> None]

ResNone == [kind |-> "none", val |-> <<>>]
Ok(info) == [kind |-> "ok", val |-> info]
Err(op) == [kind |-> "err", val |-> op]
Panic(msg) == [kind |-> "panic", val |-> msg]

(* ------------------------------ clock --------------------------------- *)

\* Duration::from_secs
from_secs(s) == s * TicksPerSec

\* Duration::as_secs: whole seconds, the fraction dropped
as_secs(d) == d \div TicksPerSec

\* Instant::elapsed at clock reading t
elapsed(last_update, t) == IF t >= last_update THEN t - last_update ELSE 0

\* variant: the comparison written >= instead of >
IsStaleInclusive(last_update, t) ==
    as_secs(elapsed(last_update, t)) >= CACHE_LIFETIME

\* variant: the threshold one second too high
IsStaleLate(last_update, t) ==
    as_secs(elapsed(last_update, t)) > CACHE_LIFETIME + 1

\* the staleness test of fetch_status (query.rs:117)
IsStale(last_update, t) == as_secs(elapsed(last_update, t)) > CACHE_LIFETIME

\* how far the clock may move in one step: a tick, or a cache lifetime and
\* a tick
Delays == {1, from_secs(CACHE_LIFETIME) + 1}

(* ------------------------------ RwLock -------------------------------- *)

\* variant: a read that does not wait for the writer
CanReadAlways(l) == l.readers \subseteq Callers

\* RwLock::read returns once no writer holds the lock
CanRead(l) == l.writer = {}

\* variant: a write that waits for the readers only
CanWriteShared(l) == l.readers = {}

\* RwLock::write returns once nobody holds the lock
CanWrite(l) == l.writer = {} /\ l.readers = {}

\* variant: the read guard bound to a variable that lives on
ReleaseReadKept(l, p) == [l EXCEPT !.readers = @ \cup {p}]

\* the read guard of p is dropped
ReleaseRead(l, p) == [l EXCEPT !.readers = @ \ {p}]

\* variant: the write guard leaked instead of dropped
ReleaseWriteKept(l, p) == l

\* the write guard of p is dropped
ReleaseWrite(l, p) == [l EXCEPT !.writer = @ \ {p}]

(* ------------------------------- Init --------------------------------- *)

\* build_state (main.rs:69-72): last_update = now - CACHE_LIFETIME seconds,
\* server_info = ServerInfo::default()
build_state(t) ==
    [last_update |-> t - from_secs(CACHE_LIFETIME), server_info |-> ServerInfoDefault]

Init ==
    /\ now = from_secs(CACHE_LIFETIME)
    /\ ticks = 0
    /\ calls = 0
    /\ cache = build_state(now)
    /\ lock = [readers |-> {}, writer |-> {}, poisoned |-> FALSE]
    /\ pc = [p \in Callers |-> "idle"]
    /\ loc = [p \in Callers |-> LocInit]
    /\ res = [p \in Callers |-> ResNone]
    /\ obs = [p \in Callers |-> ObsInit]
    /\ tag = [last_update |-> 0, server_info |-> 0, fetch |-> 0]
    /\ lastWriter = 0
    /\ failedCall = 0
    /\ installed = {cache.server_info}

(* --------------------------- fetch_status ----------------------------- *)

\* the lines at which a caller is inside the collaborator sequence
InRemote(p) == pc[p] \in OpSet

\* callers that judged the same timestamp stale and are in the collaborator
\* sequence together with p
RacingWith(p, pcs, l) ==
    {q \in Callers \ {p} : pcs[q] \in OpSet /\ l[q].last_update = l[p].last_update}

\* a request handler calls fetch_status (main.rs:39, query.rs:110-114)
Call(p) ==
    /\ pc[p] = "idle"
    /\ calls < MaxCalls
    /\ calls' = calls + 1
    /\ pc' = [pc EXCEPT ![p] = "l116"]
    /\ loc' = [loc EXCEPT ![p] = LocInit]
    /\ obs' = [obs EXCEPT ![p] = [ObsInit EXCEPT !.id = calls + 1]]
    /\ res' = [res EXCEPT ![p] = ResNone]
    /\ UNCHANGED <<now, ticks, cache, lock, tag, lastWriter, failedCall, installed>>

\* cache.read().expect(..) (query.rs:116 and 150): the lock is taken, and a
\* poisoned lock makes expect panic, which drops the guard again
AcquireRead(p, at, next) ==
    /\ pc[p] = at
    /\ CanRead(lock)
    /\ IF lock.poisoned
       THEN /\ pc' = [pc EXCEPT ![p] = "idle"]
            /\ res' = [res EXCEPT ![p] = Panic("can't readlock cache")]
            /\ loc' = [loc EXCEPT ![p] = LocInit]
            /\ obs' = [obs EXCEPT ![p] = ObsInit]
            /\ UNCHANGED lock
       ELSE /\ pc' = [pc EXCEPT ![p] = next]
            /\ lock' = [lock EXCEPT !.readers = @ \cup {p}]
            /\ UNCHANGED <<res, loc, obs>>
    /\ UNCHANGED <<now, ticks, calls, cache, tag, lastWriter, failedCall, installed>>

\* query.rs:116, the lock call
ReadLock116(p) == AcquireRead(p, "l116", "l116r")

\* query.rs:116: last_update is copied and the guard dropped
ReadLastUpdate(p) ==
    /\ pc[p] = "l116r"
    /\ loc' = [loc EXCEPT ![p].last_update = cache.last_update]
    /\ obs' = [obs EXCEPT ![p].saw_last_update = Some(tag.last_update)]
    /\ lock' = ReleaseRead(lock, p)
    /\ pc' = [pc EXCEPT ![p] = "l117"]
    /\ UNCHANGED <<now, ticks, calls, cache, res, tag, lastWriter, failedCall, installed>>

\* query.rs:117: the staleness decision, on the clock as it reads now
CheckStale(p) ==
    /\ pc[p] = "l117"
    /\ LET stale == IsStale(loc[p].last_update, now)
           pcs == [pc EXCEPT ![p] = IF stale THEN Ops[1] ELSE "l150"]
           with == IF stale THEN RacingWith(p, pcs, loc) ELSE {}
       IN /\ pc' = pcs
          /\ obs' = [q \in Callers |->
                       IF q = p
                       THEN [obs[q] EXCEPT !.raced = with # {}]
                       ELSE IF q \in with THEN [obs[q] EXCEPT !.raced = TRUE]
                       ELSE obs[q]]
    /\ UNCHANGED <<now, ticks, calls, cache, lock, loc, res, tag,
                   lastWriter, failedCall, installed>>

\* what a successful collaborator operation leaves in the locals
OpResult(l, op, answer) ==
    IF op = "serverinfo" THEN [l EXCEPT !.server_info = answer]
    ELSE IF op = "channels" THEN [l EXCEPT !.channels = answer]
    ELSE IF op = "clients" THEN [l EXCEPT !.clients = answer]
    ELSE l

\* what the collaborator may answer to an operation
Answers(op) ==
    IF op = "serverinfo" THEN MetaResponses
    ELSE IF op = "channels" THEN ChannelResponses
    ELSE IF op = "clients" THEN ClientResponses
    ELSE {<<>>}

\* the place of a collaborator sequence that completes now among those
\* still held by a caller or by the cache: after all of them
FetchOrdinal(o, t) ==
    LET held == {o[q].fetched : q \in Callers} \cup {t.fetch}
    IN 1 + CHOOSE m \in held : \A n \in held : n <= m

\* variant: the payload built once the client list has arrived, logout
\* left out
AfterOpNoLogout(op) ==
    IF op \in {"clients", "logout"} THEN "l139" ELSE Ops[OpIndex(op) + 1]

\* the line after a successful operation
AfterOp(op) == IF op = "logout" THEN "l139" ELSE Ops[OpIndex(op) + 1]

\* one collaborator operation returns Ok (query.rs:122-137)
CollabOk(p) ==
    /\ InRemote(p)
    /\ \E answer \in Answers(pc[p]) :
          loc' = [loc EXCEPT ![p] = OpResult(@, pc[p], answer)]
    /\ obs' = [obs EXCEPT ![p].invoked = Append(@, pc[p]),
                          ![p].fetched = IF pc[p] = "logout"
                                         THEN FetchOrdinal(obs, tag) ELSE @]
    /\ pc' = [pc EXCEPT ![p] = AfterOp(pc[p])]
    /\ UNCHANGED <<now, ticks, calls, cache, lock, res, tag, lastWriter,
                   failedCall, installed>>

\* variant: a failed attempt recorded as an update
CacheStampedOnFailure(c, t) == [c EXCEPT !.last_update = t]

\* variant: a failed attempt backs the next one off by resetting the age
CacheBackoffOnFailure(c, t) ==
    [c EXCEPT !.last_update = t - from_secs(CACHE_LIFETIME)]

\* the cache after a collaborator operation has failed at clock reading t:
\* `?` returns the error, nothing is written (query.rs:122-137)
CacheAfterFailure(c, t) == c

\* one collaborator operation returns Err and `?` returns it to the caller
CollabFail(p) ==
    /\ InRemote(p)
    /\ res' = [res EXCEPT ![p] = Err(pc[p])]
    /\ pc' = [pc EXCEPT ![p] = "idle"]
    /\ cache' = CacheAfterFailure(cache, now)
    /\ failedCall' = IF cache.last_update = loc[p].last_update
                     THEN obs[p].id ELSE failedCall
    /\ loc' = [loc EXCEPT ![p] = LocInit]
    /\ obs' = [obs EXCEPT ![p] = ObsInit]
    /\ UNCHANGED <<now, ticks, calls, lock, tag, lastWriter, installed>>

\* query.rs:139: channel_tree builds the payload, or panics on a missing key
BuildTree(p) ==
    /\ pc[p] = "l139"
    /\ IF IndexPanics(loc[p].server_info)
       THEN /\ pc' = [pc EXCEPT ![p] = "idle"]
            /\ res' = [res EXCEPT ![p] = Panic("key not found")]
            /\ loc' = [loc EXCEPT ![p] = LocInit]
            /\ obs' = [obs EXCEPT ![p] = ObsInit]
       ELSE /\ pc' = [pc EXCEPT ![p] = "l140"]
            /\ loc' = [loc EXCEPT ![p].info =
                          channel_tree(loc[p].server_info, loc[p].channels,
                                       loc[p].clients)]
            /\ UNCHANGED <<res, obs>>
    /\ UNCHANGED <<now, ticks, calls, cache, lock, tag, lastWriter,
                   failedCall, installed>>

\* variant: the write lock taken with expect, so that the Err ends the call
AfterWriteErrAborts == "idle"

\* the line after the else branch of query.rs:143-145, which only logs:
\* the value of the block, server_info (query.rs:146), and Ok(info)
AfterWriteErr == "ret"

\* query.rs:140: cache.write(); a poisoned lock gives Err, the else branch
\* logs and nothing is written (query.rs:143-145)
WriteLock(p) ==
    /\ pc[p] = "l140"
    /\ CanWrite(lock)
    /\ IF lock.poisoned
       THEN /\ pc' = [pc EXCEPT ![p] = AfterWriteErr]
            /\ UNCHANGED <<lock, lastWriter>>
       ELSE /\ pc' = [pc EXCEPT ![p] = "l141"]
            /\ lock' = [lock EXCEPT !.writer = {p}]
            /\ lastWriter' = obs[p].id
    /\ UNCHANGED <<now, ticks, calls, cache, loc, res, obs, tag,
                   failedCall, installed>>

\* variant: the timestamp read at the start of the call is stored back
StoredTimeOld(p) == loc[p].last_update

\* the timestamp fetch_status stores (query.rs:141): Instant::now()
StoredTime(p) == now

\* query.rs:141: cache.last_update = Instant::now()
WriteLastUpdate(p) ==
    /\ pc[p] = "l141"
    /\ cache' = [cache EXCEPT !.last_update = StoredTime(p)]
    /\ tag' = [tag EXCEPT !.last_update = obs[p].id]
    /\ failedCall' = 0
    /\ pc' = [pc EXCEPT ![p] = "l142"]
    /\ UNCHANGED <<now, ticks, calls, lock, loc, res, obs, lastWriter, installed>>

\* query.rs:142-143: cache.server_info = server_info.clone(), and the
\* write guard is dropped at the end of the block
WriteServerInfo(p) ==
    /\ pc[p] = "l142"
    /\ cache' = [cache EXCEPT !.server_info = loc[p].info]
    /\ lock' = ReleaseWrite(lock, p)
    /\ tag' = [tag EXCEPT !.server_info = obs[p].id, !.fetch = obs[p].fetched]
    /\ obs' = [obs EXCEPT ![p].wrote = TRUE,
                          ![p].saw_server_info = Some(obs[p].id)]
    /\ installed' = installed \cup {loc[p].info}
    /\ pc' = [pc EXCEPT ![p] = "ret"]
    /\ UNCHANGED <<now, ticks, calls, loc, res, lastWriter, failedCall>>

\* query.rs:149-151, the lock call of the fast path
ReadLock150(p) == AcquireRead(p, "l150", "l150r")

\* query.rs:152-153: server_info is cloned and the guard dropped
ReadServerInfo(p) ==
    /\ pc[p] = "l150r"
    /\ loc' = [loc EXCEPT ![p].info = cache.server_info]
    /\ obs' = [obs EXCEPT ![p].saw_server_info = Some(tag.server_info)]
    /\ lock' = ReleaseRead(lock, p)
    /\ pc' = [pc EXCEPT ![p] = "ret"]
    /\ UNCHANGED <<now, ticks, calls, cache, res, tag, lastWriter, failedCall, installed>>

\* query.rs:156: Ok(info)
Return(p) ==
    /\ pc[p] = "ret"
    /\ res' = [res EXCEPT ![p] = Ok(loc[p].info)]
    /\ pc' = [pc EXCEPT ![p] = "idle"]
    /\ loc' = [loc EXCEPT ![p] = LocInit]
    /\ obs' = [obs EXCEPT ![p] = ObsInit]
    /\ UNCHANGED <<now, ticks, calls, cache, lock, tag, lastWriter,
                   failedCall, installed>>

\* the clock moves on
Tick(d) ==
    /\ ticks < MaxTicks
    /\ ticks' = ticks + 1
    /\ now' = now + d
    /\ UNCHANGED <<calls, cache, lock, pc, loc, res, obs, tag,
                   lastWriter, failedCall, installed>>

\* a panic while the write guard is held (query.rs:141-142): unwinding drops
\* the guard and the drop poisons the lock
WriterCrash(p) ==
    /\ pc[p] \in WriteHeld
    /\ lock' = [ReleaseWrite(lock, p) EXCEPT !.poisoned = TRUE]
    /\ pc' = [pc EXCEPT ![p] = "idle"]
    /\ res' = [res EXCEPT ![p] = Panic("writer crashed")]
    /\ loc' = [loc EXCEPT ![p] = LocInit]
    /\ obs' = [obs EXCEPT ![p] = ObsInit]
    /\ UNCHANGED <<now, ticks, calls, cache, tag, lastWriter, failedCall, installed>>

Next ==
    \/ \E p \in Callers : Call(p)
    \/ \E p \in Callers : ReadLock116(p)
    \/ \E p \in Callers : ReadLastUpdate(p)
    \/ \E p \in Callers : CheckStale(p)
    \/ \E p \in Callers : CollabOk(p)
    \/ \E p \in Callers : CollabFail(p)
    \/ \E p \in Callers : BuildTree(p)
    \/ \E p \in Callers : WriteLock(p)
    \/ \E p \in Callers : WriteLastUpdate(p)
    \/ \E p \in Callers : WriteServerInfo(p)
    \/ \E p \in Callers : ReadLock150(p)
    \/ \E p \in Callers : ReadServerInfo(p)
    \/ \E p \in Callers : Return(p)
    \/ \E d \in Delays : Tick(d)

\* the program as it runs: no panic is raised while the write guard is held
Spec == Init /\ [][Next]_vars

\* the program with a writer that crashes while it holds the lock
NextCrash == Next \/ \E p \in Callers : WriterCrash(p)

SpecCrash == Init /\ [][NextCrash]_vars

\* the lock calls of fetch_status (query.rs:116, 140, 150)
Acquire(p) == ReadLock116(p) \/ WriteLock(p) \/ ReadLock150(p)

\* every other step of a running call: the collaborator answers, and the
\* thread of the caller runs
Proceed(p) ==
    \/ ReadLastUpdate(p) \/ CheckStale(p) \/ CollabOk(p) \/ CollabFail(p)
    \/ BuildTree(p) \/ WriteLastUpdate(p) \/ WriteServerInfo(p)
    \/ ReadServerInfo(p) \/ Return(p)

\* the program with a collaborator that answers every operation, threads
\* that keep running and a lock that lets no waiter starve
SpecFair ==
    /\ Spec
    /\ \A p \in Callers : WF_vars(Proceed(p)) /\ SF_vars(Acquire(p))

\* the values of client_type the collaborator reports: voice, server query
ClientTypes == {VOICE_CLIENT, 1}

\* the channel and parent ids a record may carry
ChannelIds == 0 .. MaxChannels

\* the i-th record of an answer, named after its place in the answer
ChannelAt(i, ids) == Chan(ids[1], ids[2], ToString(i))
ClientAt(i, fields) == Cli(fields[1], fields[2], ToString(i))

\* a channel list the collaborator may return: any ids, any parents, any
\* order, repeated ids included
ChannelList(n, cids, pids) ==
    [i \in 1 .. n |-> ChannelAt(i, <<cids[i], pids[i]>>)]

\* a client list the collaborator may return
ClientList(n, fields) == [i \in 1 .. n |-> ClientAt(i, fields[i])]

\* a chain three levels deep
ChansChain == <<Chan(1, 0, "A"), Chan(2, 1, "B"), Chan(3, 2, "C")>>

\* two records with one id, and a record that names it as its parent
ChansRepeatedId == <<Chan(1, 0, "A"), Chan(1, 0, "B"), Chan(2, 1, "C")>>

NamedChannelLists == {ChansOrdered, ChansUnordered, ChansChain, ChansRepeatedId}

\* fetch_status at query.rs:139: caller 1 found the cache stale, the
\* collaborator sequence has succeeded and channel_tree is about to run on
\* its answers
TreeStart(channels, clients) ==
    /\ now = 2 * from_secs(CACHE_LIFETIME) + 1
    /\ ticks = 1
    /\ calls = 1
    /\ cache = build_state(from_secs(CACHE_LIFETIME))
    /\ lock = [readers |-> {}, writer |-> {}, poisoned |-> FALSE]
    /\ pc = [p \in Callers |-> IF p = 1 THEN "l139" ELSE "idle"]
    /\ loc = [p \in Callers |->
                IF p = 1
                THEN [LocInit EXCEPT !.server_info = MetaFull,
                                     !.channels = channels, !.clients = clients]
                ELSE LocInit]
    /\ res = [p \in Callers |-> ResNone]
    /\ obs = [p \in Callers |->
                IF p = 1
                THEN [ObsInit EXCEPT !.id = 1, !.invoked = Ops, !.fetched = 1,
                                     !.saw_last_update = Some(0)]
                ELSE ObsInit]
    /\ tag = [last_update |-> 0, server_info |-> 0, fetch |-> 0]
    /\ lastWriter = 0
    /\ failedCall = 0
    /\ installed = {cache.server_info}

\* the answers channel_tree is applied to: every channel list with one
\* client list, and every client list with the named channel lists
InitTree ==
    \/ \E n \in 0 .. MaxChannels :
          \E cids \in [1 .. n -> ChannelIds], pids \in [1 .. n -> ChannelIds] :
              TreeStart(ChannelList(n, cids, pids), ClientsMixed)
    \/ \E channels \in NamedChannelLists, n \in 0 .. MaxClients :
          \E fields \in [1 .. n -> ChannelIds \X ClientTypes] :
              TreeStart(channels, ClientList(n, fields))

NextTree == \E p \in Callers : BuildTree(p)

\* channel_tree on every answer of the collaborator
SpecTree == InitTree /\ [][NextTree]_vars

(* ============================== claims ================================ *)

\* caller p takes the staleness decision of query.rs:117 in this step
Decides(p) == pc[p] = "l117" /\ pc'[p] # "l117"

\* the time since the timestamp p read, on the clock as it reads now
Age(p) == elapsed(loc[p].last_update, now)

\* the lines of the fast path
FastPcs == {"l150", "l150r"}

\* p is about to return from the fast path
FastReturn(p) == pc[p] = "ret" /\ obs[p].invoked = <<>>

\* the payload channel_tree builds from what p fetched
Built(p) == channel_tree(loc[p].server_info, loc[p].channels, loc[p].clients)

\* C1 Freshness: a call that finds, at its staleness decision, at most
\* CACHE_LIFETIME seconds elapsed since the last_update it read goes to the
\* fast path; on the fast path no collaborator operation is invoked, and the
\* call returns the payload it read from the cache.
C1_Freshness ==
    [][\A p \in Callers :
        /\ (Decides(p) /\ Age(p) <= from_secs(CACHE_LIFETIME)) => pc'[p] = "l150"
        /\ pc'[p] \in FastPcs => obs'[p].invoked = <<>>
        /\ (pc[p] = "l150r" /\ pc'[p] # "l150r") =>
              /\ pc'[p] = "ret"
              /\ loc'[p].info = cache.server_info
              /\ obs'[p].invoked = <<>>
        /\ (FastReturn(p) /\ pc'[p] # "ret") =>
              res'[p] = Ok(loc[p].info)]_vars

\* a fast-path call about to return a payload that a refresh installed
C1_Witness ==
    \E p \in Callers :
        /\ FastReturn(p)
        /\ loc[p].info = cache.server_info
        /\ loc[p].info # ServerInfoDefault
        /\ obs[p].saw_server_info # Some(0)
        /\ Age(p) <= from_secs(CACHE_LIFETIME)

\* C2 Staleness as claimed: whenever more than CACHE_LIFETIME seconds have
\* elapsed, compared at sub-second granularity, the call leaves the fast
\* path and starts the collaborator sequence.
C2_StaleSubSecond ==
    [][\A p \in Callers :
        (Decides(p) /\ Age(p) > from_secs(CACHE_LIFETIME)) => pc'[p] = Ops[1]]_vars

\* C2 Staleness as amended: the elapsed time is cut to whole seconds before
\* the comparison, so a call refreshes when at least CACHE_LIFETIME + 1
\* seconds have elapsed, and only then; the refresh starts with the connect
\* operation of the collaborator, which is invoked.
C2_StaleWholeSeconds ==
    [][\A p \in Callers :
        /\ Decides(p) =>
              (pc'[p] = Ops[1] <=> Age(p) >= from_secs(CACHE_LIFETIME + 1))
        /\ (pc[p] = Ops[1] /\ pc'[p] # Ops[1]) =>
              \/ pc'[p] = Ops[2] /\ obs'[p].invoked = <<Ops[1]>>
              \/ pc'[p] = "idle" /\ res'[p] = Err(Ops[1])]_vars

\* a call that judged the timestamp of an earlier refresh stale and has
\* invoked connect
C2_Witness ==
    \E p \in Callers :
        /\ pc[p] = Ops[2]
        /\ obs[p].invoked = <<Ops[1]>>
        /\ obs[p].saw_last_update # Some(0)
        /\ Age(p) >= from_secs(CACHE_LIFETIME + 1)

\* C3 Failure preserves state: a collaborator operation that fails ends the
\* call with that operation's error, and neither that step nor any earlier
\* step of the call has written the cached (last_update, server_info) pair.
C3_FailurePreservesState ==
    [][\A p \in Callers :
        (pc[p] \in OpSet /\ pc'[p] = "idle") =>
            /\ res'[p] = Err(pc[p])
            /\ cache' = cache
            /\ tag' = tag
            /\ ~obs[p].wrote]_vars

\* a call failed at logout while the cache holds the pair of call 1
C3_Witness ==
    \E p \in Callers :
        /\ res[p] = Err("logout")
        /\ <<tag.last_update, tag.server_info>> = <<1, 1>>
        /\ cache.server_info # ServerInfoDefault

\* C4 Successful refresh effect: the write stores the clock as it reads at
\* the write (after the fetch) and the tree built from this call's fetch,
\* both while this caller alone holds the lock, and the call returns the
\* payload it installed.
C4_SuccessfulRefresh ==
    [][\A p \in Callers :
        /\ (pc[p] = "l141" /\ pc'[p] = "l142") =>
              /\ cache'.last_update = now
              /\ cache'.server_info = cache.server_info
        /\ pc'[p] \in WriteHeld => (lock'.writer = {p} /\ lock'.readers = {})
        /\ (pc[p] = "l142" /\ pc'[p] # "l142") =>
              /\ pc'[p] = "ret"
              /\ cache' = [last_update |-> cache.last_update, server_info |-> Built(p)]
              /\ <<tag'.last_update, tag'.server_info>> = <<obs[p].id, obs[p].id>>
        /\ (pc[p] = "ret" /\ obs[p].wrote /\ pc'[p] # "ret") =>
              res'[p] = Ok(Built(p))]_vars

\* a refreshing call about to return the payload the cache now holds, with a
\* timestamp later than the one it judged stale
C4_Witness ==
    \E p \in Callers :
        /\ pc[p] = "ret"
        /\ obs[p].wrote
        /\ cache.server_info = loc[p].info
        /\ loc[p].info = Built(p)
        /\ <<tag.last_update, tag.server_info>> = <<obs[p].id, obs[p].id>>
        /\ cache.last_update >= loc[p].last_update + from_secs(CACHE_LIFETIME + 1)

\* C5 Pair atomicity as seen by callers: the timestamp a fast-path call
\* decided on and the payload it returns were written by the same write.
C5_PairAtomicity ==
    \A p \in Callers :
        FastReturn(p) => obs[p].saw_last_update = obs[p].saw_server_info

\* C6 Concurrent read consistency: while a caller holds the read lock the
\* cache is one whole Snapshot (both fields from the same write, no writer
\* inside), and the payload a fast-path call returns is, in all its fields,
\* a payload that was installed.
C6_ReadConsistency ==
    \A p \in Callers :
        /\ pc[p] \in ReadHeld =>
              /\ tag.last_update = tag.server_info
              /\ lock.writer = {}
              /\ cache.server_info \in installed
        /\ FastReturn(p) => loc[p].info \in installed

\* a fast-path call that raced a refresh and returns the whole new payload
C6_Witness ==
    \E p, q \in Callers :
        /\ p # q
        /\ FastReturn(p)
        /\ pc[q] = "ret" /\ obs[q].wrote
        /\ obs[p].saw_last_update = Some(0)
        /\ obs[p].saw_server_info = Some(obs[q].id)
        /\ loc[p].info = loc[q].info
        /\ loc[p].info # ServerInfoDefault

\* C7 Known duplicate-refresh race: callers that judged the same timestamp
\* stale run the collaborator sequence side by side; each that succeeds
\* writes, and once no writer is inside the cache holds the pair of the call
\* that acquired the write lock last.
C7_LastWriterWins ==
    /\ lock.writer = {} =>
          <<tag.last_update, tag.server_info>> = <<lastWriter, lastWriter>>
    /\ \A p \in Callers :
          /\ (pc[p] = "ret" /\ Len(obs[p].invoked) = Len(Ops)) => obs[p].wrote
          /\ (pc[p] = "ret" /\ obs[p].wrote /\ lastWriter = obs[p].id
                /\ lock.writer = {}) => cache.server_info = loc[p].info
          /\ obs[p].raced =>
                (pc[p] \in OpSet \cup {"l139", "l140", "l141", "l142", "ret"})

\* two calls that ran the collaborator sequence side by side on the same
\* stale timestamp, both written, the cache holding the later writer's pair
C7_Witness ==
    \E p, q \in Callers :
        /\ p # q
        /\ pc[p] = "ret" /\ pc[q] = "ret"
        /\ obs[p].raced /\ obs[q].raced
        /\ obs[p].wrote /\ obs[q].wrote
        /\ loc[p].last_update = loc[q].last_update
        /\ loc[p].info # loc[q].info
        /\ lastWriter = obs[q].id
        /\ cache.server_info = loc[q].info

\* C8 Network call outside the lock: the lock is held only at the lines of
\* the two reads and of the write, so a caller inside the collaborator
\* sequence holds neither guard, and a read is never kept waiting by a
\* caller that is inside it.
C8_NetworkOutsideLock ==
    /\ lock.readers = {p \in Callers : pc[p] \in ReadHeld}
    /\ lock.writer = {p \in Callers : pc[p] \in WriteHeld}
    /\ \A p \in Callers : pc[p] \in OpSet => (p \notin lock.readers \cup lock.writer)
    /\ (\A p \in Callers : pc[p] \notin WriteHeld) => CanRead(lock)

\* one caller holds the read lock while another is inside the collaborator
\* sequence
C8_Witness ==
    \E p, q \in Callers :
        /\ pc[p] = "channels"
        /\ pc[q] = "l150r"
        /\ q \in lock.readers

\* C9 Lock failure does not surface: no call is aborted because the lock is
\* poisoned.
C9_PoisonNotSurfaced ==
    \A p \in Callers : res[p] # Panic("can't readlock cache")

\* C10 No failure caching: while the cache still holds the timestamp on
\* which a stale call failed, every call that decides on that timestamp is
\* judged stale and starts the collaborator sequence again.
C10_NoFailureCaching ==
    [][\A p \in Callers :
        (Decides(p) /\ failedCall # 0 /\ loc[p].last_update = cache.last_update)
            => pc'[p] = Ops[1]]_vars

\* the only caller there is has failed in call 1 and, in call 2, has invoked
\* connect again
C10_Witness ==
    \E p \in Callers :
        /\ failedCall = 1
        /\ obs[p].id = 2
        /\ pc[p] = Ops[2]
        /\ \A q \in Callers \ {p} : pc[q] = "idle" /\ res[q] = ResNone

\* C11 Only successfully built data is served: no fast-path call returns the
\* payload that build_state put in the cache (the one no refresh has
\* written).
C11_PlaceholderNeverServed ==
    \A p \in Callers : FastReturn(p) => obs[p].saw_server_info # Some(0)

(* ------------------------- channel_tree claims ------------------------ *)

\* the nodes of a forest, parents before children, siblings in order
RECURSIVE NodesOf(_)
NodesOf(children) ==
    IF children = <<>> THEN <<>>
    ELSE <<Head(children)>> \o NodesOf(Head(children).children)
                            \o NodesOf(Tail(children))

\* the tree p has built, with its root, as a sequence of nodes
TreeNodes(p) ==
    <<[RootNode EXCEPT !.children = loc[p].info.channels]>>
        \o NodesOf(loc[p].info.channels)

\* how often the i-th channel record of p's answer is a child in the tree
\* of a node with the given id
TimesUnder(p, i, parent_id) ==
    LET nodes == TreeNodes(p)
        c == loc[p].channels[i]
    IN Cardinality({<<k, j>> \in (DOMAIN nodes) \X (1 .. MaxChannels) :
                      /\ nodes[k].id = parent_id
                      /\ j \in DOMAIN nodes[k].children
                      /\ nodes[k].children[j].id = c.cid
                      /\ nodes[k].children[j].name = c.channel_name})

\* how often the i-th channel record of p's answer is in the tree at all
TimesInTree(p, i) ==
    LET nodes == NodesOf(loc[p].info.channels)
        c == loc[p].channels[i]
    IN Cardinality({k \in DOMAIN nodes :
                      nodes[k].id = c.cid /\ nodes[k].name = c.channel_name})

\* the ids of the records that name parent_id as their parent, in the order
\* of the answer
RECURSIVE ChildIds(_, _)
ChildIds(channels, parent_id) ==
    IF channels = <<>> THEN <<>>
    ELSE IF Head(channels).pid = parent_id
         THEN <<Head(channels).cid>> \o ChildIds(Tail(channels), parent_id)
         ELSE ChildIds(Tail(channels), parent_id)

DistinctIds(channels) ==
    \A i, j \in DOMAIN channels : i # j => channels[i].cid # channels[j].cid

NonZeroIds(channels) == \A i \in DOMAIN channels : channels[i].cid # ROOT_ID

\* every record names the root or an earlier record as its parent
ParentsFirst(channels) ==
    \A i \in DOMAIN channels :
        \/ channels[i].pid = ROOT_ID
        \/ \E j \in 1 .. i - 1 : channels[j].cid = channels[i].pid

\* p has run channel_tree on its answers
TreeBuilt(p) == pc[p] = "l140"

\* C12 Tree correctness: for a channel list with pairwise-distinct non-zero
\* ids in which every parent id is 0 or the id of an earlier record, every
\* record is in the tree exactly once, as a child of the node whose id is
\* its parent id, and the children of every node are in the order of the
\* list.
C12_TreeCorrect ==
    \A p \in Callers :
        (/\ TreeBuilt(p)
         /\ DistinctIds(loc[p].channels)
         /\ NonZeroIds(loc[p].channels)
         /\ ParentsFirst(loc[p].channels))
        => /\ Len(NodesOf(loc[p].info.channels)) = Len(loc[p].channels)
           /\ \A i \in DOMAIN loc[p].channels :
                 /\ TimesInTree(p, i) = 1
                 /\ TimesUnder(p, i, loc[p].channels[i].pid) = 1
           /\ \A k \in DOMAIN TreeNodes(p) :
                 [j \in DOMAIN TreeNodes(p)[k].children |->
                     TreeNodes(p)[k].children[j].id]
                   = ChildIds(loc[p].channels, TreeNodes(p)[k].id)

\* a tree three records large with two siblings below a top-level channel
C12_Witness ==
    /\ TreeBuilt(1)
    /\ DistinctIds(loc[1].channels)
    /\ NonZeroIds(loc[1].channels)
    /\ ParentsFirst(loc[1].channels)
    /\ Len(loc[1].channels) = 3
    /\ loc[1].channels[2].pid = loc[1].channels[1].cid
    /\ loc[1].channels[3].pid = loc[1].channels[1].cid
    /\ Len(loc[1].info.channels[1].children) = 2

\* the i-th record finds a node to hang under when the loop reaches it: its
\* parent id is the root's, or the id of an earlier record that found one
RECURSIVE Inserted(_, _)
Inserted(channels, i) ==
    \/ channels[i].pid = ROOT_ID
    \/ \E j \in 1 .. i - 1 :
          channels[j].cid = channels[i].pid /\ Inserted(channels, j)

\* C13 Ordering dependency: a record whose parent id is neither 0 nor the
\* id of a node inserted before it (a record that precedes its parent or
\* names itself included) is not in the tree, nor is any record whose chain
\* of parents leads to such a record; channel_tree raises no error for it.
C13_OrderingDependency ==
    \A p \in Callers :
        /\ res[p].kind # "panic"
        /\ TreeBuilt(p) =>
              \A i \in DOMAIN loc[p].channels :
                  ~Inserted(loc[p].channels, i) => TimesInTree(p, i) = 0

\* a record that precedes its parent is dropped, and its own child with it,
\* while the parent, which comes last, is kept
C13_Witness ==
    /\ TreeBuilt(1)
    /\ DistinctIds(loc[1].channels)
    /\ \E i, j, k \in DOMAIN loc[1].channels :
          /\ i < j
          /\ loc[1].channels[i].pid = loc[1].channels[j].cid
          /\ loc[1].channels[k].pid = loc[1].channels[i].cid
          /\ Inserted(loc[1].channels, j)
          /\ ~Inserted(loc[1].channels, i)
          /\ ~Inserted(loc[1].channels, k)
          /\ i # k
          /\ TimesInTree(1, j) = 1
    /\ Len(NodesOf(loc[1].info.channels)) = 1

\* the voice clients of the channel with the given id, in the order of the
\* answer, as the payload shows them
VoiceClientsOf(clients, id) ==
    LET InChannel(c) == c.client_type = VOICE_CLIENT /\ c.cid = id
        sel == SelectSeq(clients, InChannel)
    IN [k \in DOMAIN sel |-> ClientFrom(sel[k])]

\* how often the client with the given nickname is listed by a node
TimesListed(node, nick) ==
    Cardinality({k \in DOMAIN node.clients : node.clients[k].nickname = nick})

\* C14 Client attachment: the client list of every node of the tree is the
\* subsequence, in input order, of the client records of type 0 whose
\* channel id is the node's id; a client of another type is listed by no
\* node, and a client is listed by no node but that of its own channel id.
C14_ClientAttachment ==
    \A p \in Callers :
        TreeBuilt(p) =>
            \A k \in DOMAIN NodesOf(loc[p].info.channels) :
                LET node == NodesOf(loc[p].info.channels)[k]
                IN /\ node.clients = VoiceClientsOf(loc[p].clients, node.id)
                   /\ \A i \in DOMAIN loc[p].clients :
                         LET c == loc[p].clients[i]
                         IN TimesListed(node, c.client_nickname) =
                              IF c.client_type = VOICE_CLIENT /\ c.cid = node.id
                              THEN 1 ELSE 0

\* a channel with a parent and a child that three records name: it lists
\* the two voice clients in input order and not the query client between
\* them, and neither its parent nor its child lists any
C14_Witness ==
    /\ TreeBuilt(1)
    /\ loc[1].channels = ChansChain
    /\ Len(loc[1].clients) = 3
    /\ \A i \in 1 .. 3 : loc[1].clients[i].cid = 2
    /\ loc[1].clients[1].client_type = VOICE_CLIENT
    /\ loc[1].clients[2].client_type # VOICE_CLIENT
    /\ loc[1].clients[3].client_type = VOICE_CLIENT
    /\ LET a == loc[1].info.channels[1]
       IN /\ a.clients = <<>>
          /\ a.children[1].clients
               = <<ClientFrom(loc[1].clients[1]), ClientFrom(loc[1].clients[3])>>
          /\ a.children[1].children[1].clients = <<>>

\* C15 Tree invariant: for a channel list with pairwise-distinct ids, in
\* any order, every record is in the tree exactly once, as a child of the
\* node whose id is its parent id.
C15_EveryIdOnce ==
    \A p \in Callers :
        (TreeBuilt(p) /\ DistinctIds(loc[p].channels)) =>
            \A i \in DOMAIN loc[p].channels :
                /\ TimesInTree(p, i) = 1
                /\ TimesUnder(p, i, loc[p].channels[i].pid) = 1

\* C15 as the code has it: for a channel list with pairwise-distinct ids, in
\* any order, a record is in the tree exactly once, as a child of the node
\* whose id is its parent id, when its chain of parents reaches the root
\* through earlier records, and not at all otherwise.
C15_EveryInsertedIdOnce ==
    \A p \in Callers :
        (TreeBuilt(p) /\ DistinctIds(loc[p].channels)) =>
            \A i \in DOMAIN loc[p].channels :
                LET times == IF Inserted(loc[p].channels, i) THEN 1 ELSE 0
                IN /\ TimesInTree(p, i) = times
                   /\ TimesUnder(p, i, loc[p].channels[i].pid) = times

\* the child that precedes its parent is missing from the tree and the
\* parent is at the top level
C15_Witness ==
    /\ TreeBuilt(1)
    /\ loc[1].channels = ChansUnordered
    /\ TimesInTree(1, 1) = 0
    /\ TimesUnder(1, 2, ROOT_ID) = 1
    /\ Len(loc[1].info.channels) = 1
    /\ loc[1].info.channels[1].children = <<>>

(* ----------------------- refresh protocol claims ---------------------- *)

\* the operations of the sequence before the given one
OpsBefore(op) == SubSeq(Ops, 1, OpIndex(op) - 1)

\* the lines of the refresh path after the collaborator sequence
AfterRemote == {"l139", "l140", "l141", "l142"}

\* C16 Refresh protocol order: within one call the operations that have
\* returned success are the sequence up to the one being invoked, each once
\* and in order; an operation that fails ends the call with an error and no
\* further operation; the payload is built and the cache written only with
\* all seven, logout included, returned success.
C16_ProtocolOrder ==
    [][\A p \in Callers :
          /\ InRemote(p)' => obs'[p].invoked = OpsBefore(pc'[p])
          /\ pc'[p] \in AfterRemote => obs'[p].invoked = Ops
          /\ (InRemote(p) /\ pc'[p] # pc[p]) =>
                \/ pc'[p] = "idle" /\ res'[p] = Err(pc[p]) /\ cache' = cache
                \/ InRemote(p)' /\ OpIndex(pc'[p]) = OpIndex(pc[p]) + 1
                \/ pc[p] = "logout" /\ pc'[p] = "l139"
          /\ (cache' # cache /\ pc'[p] # pc[p]) =>
                pc[p] \in WriteHeld /\ obs[p].invoked = Ops]_vars

\* one call has failed at logout and written nothing, while another, whose
\* logout succeeded, holds the write lock
C16_Witness ==
    \E p, q \in Callers :
        /\ res[q] = Err("logout")
        /\ pc[q] = "idle"
        /\ pc[p] = "l141"
        /\ obs[p].invoked = Ops
        /\ tag.server_info = 0

\* C17 Failed write attempt: a caller that finds the lock poisoned at the
\* write of query.rs:140 leaves the lock and the cached pair as they are,
\* and its call returns Ok with the payload it has just built.
C17_FailedWriteAttempt ==
    [][\A p \in Callers :
          /\ (pc[p] = "l140" /\ lock.poisoned /\ pc'[p] # "l140") =>
                /\ pc'[p] = "ret"
                /\ cache' = cache /\ lock' = lock /\ tag' = tag
                /\ cache.server_info \in installed
                /\ loc'[p].info = Built(p)
                /\ ~obs'[p].wrote
          /\ (pc[p] = "ret" /\ obs[p].invoked = Ops /\ ~obs[p].wrote
                /\ pc'[p] # "ret") =>
                /\ res'[p] = Ok(Built(p))
                /\ cache' = cache]_vars

\* a call whose refresh succeeded returns a payload the cache does not
\* hold, the lock being poisoned
C17_Witness ==
    \E p \in Callers :
        /\ pc[p] = "ret"
        /\ obs[p].invoked = Ops
        /\ ~obs[p].wrote
        /\ lock.poisoned
        /\ loc[p].info = Built(p)
        /\ loc[p].info # cache.server_info

\* C18 Malformed collaborator response: no call is aborted by a panic; a
\* metadata map that lacks one of the three keys ends the call with an
\* error value.
C18_MalformedIsError ==
    \A p \in Callers : res[p].kind # "panic"

\* C19 Cached data never regresses: the payload in the cache is never
\* replaced by one built from a collaborator sequence that completed
\* before the sequence the replaced payload was built from.
C19_NoRegress == [][tag'.fetch >= tag.fetch]_vars

\* C19 as the code has it: the cached timestamp never moves back, and every
\* write leaves the payload of the writing call with the time of the write,
\* whichever collaborator sequence completed first.
C19_TimestampMonotone ==
    [][/\ cache'.last_update >= cache.last_update
       /\ \A p \in Callers :
             (pc[p] = "l142" /\ pc'[p] = "ret") =>
                 /\ cache'.server_info = loc[p].info
                 /\ tag'.fetch = obs[p].fetched
                 /\ cache'.last_update <= now]_vars

\* a caller holds the write lock, has stamped the cache with the present
\* time and is about to replace the payload by one from a sequence that
\* completed before the sequence of the payload in the cache
C19_Witness ==
    \E p \in Callers :
        /\ pc[p] = "l142"
        /\ obs[p].fetched < tag.fetch
        /\ cache.last_update = now
        /\ tag.last_update = obs[p].id

(* --------------------------- deadlock claims -------------------------- *)

\* the lines at which a caller asks for the lock
AcquireLines == {"l116", "l140", "l150"}

\* p waits for the lock and the lock is not to be had
Blocked(p) ==
    \/ pc[p] \in {"l116", "l150"} /\ ~CanRead(lock)
    \/ pc[p] = "l140" /\ ~CanWrite(lock)

\* C20 No deadlock: with a collaborator that answers and a fair lock every
\* call comes to its end; a caller that asks for the lock holds no guard of
\* it; and while a call is running, some running caller is not blocked on
\* the lock.
C20_NoDeadlock ==
    /\ \A p \in Callers : (pc[p] # "idle") ~> (pc[p] = "idle")
    /\ [](\A p \in Callers :
              pc[p] \in AcquireLines => p \notin lock.readers \cup lock.writer)
    /\ []((\E p \in Callers : pc[p] # "idle") =>
              \E p \in Callers : pc[p] # "idle" /\ ~Blocked(p))

\* one caller waits for the write lock while the other holds a read guard
C20_Witness ==
    \E p, q \in Callers :
        /\ pc[p] = "l140"
        /\ Blocked(p)
        /\ pc[q] \in ReadHeld
        /\ q \in lock.readers

====
